---------------------------- MODULE Spec2Model ----------------------------
(***************************************************************************)
(* The student record service of src/main.py: six HTTP handlers over one   *)
(* table (Student) and one upload directory.                               *)
(*                                                                         *)
(* A Python str is a sequence of one-character strings, so that parsing    *)
(* (datetime.strptime), formatting (date.isoformat) and the extension test *)
(* (rsplit / lower) are computed, not assumed.  A JSON value is a tagged   *)
(* record [t, s, n]: Str(s), Num(n) or Null (Python None).                 *)
(***************************************************************************)
EXTENDS Integers, Sequences, FiniteSets, TLC

VARIABLES
    students,   \* the Student table: student_id -> row
    files,      \* the file system: path -> content
    inflight,   \* the request being routed: <<>> or <<request>>
    response    \* the response to the last request: <<>> or <<response>>

vars == <<students, files, inflight, response>>

(***************************************************************************)
(* Bounds of the model.                                                    *)
(***************************************************************************)
MaxId == 2          \* creates are sent while the next student_id is <= MaxId

(***************************************************************************)
(* JSON values and Python strings.                                         *)
(***************************************************************************)
Str(s) == [t |-> "str", s |-> s, n |-> 0]
Num(n) == [t |-> "num", s |-> <<>>, n |-> n]
Null == [t |-> "null", s |-> <<>>, n |-> 0]

DIGITS == <<"0", "1", "2", "3", "4", "5", "6", "7", "8", "9">>

IsDigit(c) == \E i \in 1..10 : DIGITS[i] = c

\* int() of one decimal digit
DigitVal(c) == (CHOOSE i \in 1..10 : DIGITS[i] = c) - 1

\* int() of a string of decimal digits
RECURSIVE ToInt(_)
ToInt(s) ==
    IF s = <<>> THEN 0
    ELSE 10 * ToInt(SubSeq(s, 1, Len(s) - 1)) + DigitVal(s[Len(s)])

\* '%0<w>d' % n
RECURSIVE ZeroPad(_, _)
ZeroPad(n, w) ==
    IF w = 0 THEN <<>>
    ELSE Append(ZeroPad(n \div 10, w - 1), DIGITS[(n % 10) + 1])

(***************************************************************************)
(* datetime.strptime(s, '%Y-%m-%d').date() and date.isoformat().           *)
(* The format compiles to the regular expression                           *)
(*   (\d\d\d\d)-(1[0-2]|0[1-9]|[1-9])-(3[01]|[12]\d|0[1-9]|[1-9]| [1-9])   *)
(* which must consume the whole string; the date constructor then rejects  *)
(* year 0 and a day beyond the month's length.                             *)
(***************************************************************************)
MatchYear(tok) == Len(tok) = 4 /\ \A i \in 1..4 : IsDigit(tok[i])

MatchMonth(tok) ==
    \/ Len(tok) = 2 /\ tok[1] = "1" /\ tok[2] \in {"0", "1", "2"}
    \/ Len(tok) = 2 /\ tok[1] = "0" /\ IsDigit(tok[2]) /\ tok[2] # "0"
    \/ Len(tok) = 1 /\ IsDigit(tok[1]) /\ tok[1] # "0"

MatchDay(tok) ==
    \/ Len(tok) = 2 /\ tok[1] = "3" /\ tok[2] \in {"0", "1"}
    \/ Len(tok) = 2 /\ tok[1] \in {"1", "2"} /\ IsDigit(tok[2])
    \/ Len(tok) = 2 /\ tok[1] = "0" /\ IsDigit(tok[2]) /\ tok[2] # "0"
    \/ Len(tok) = 1 /\ IsDigit(tok[1]) /\ tok[1] # "0"
    \/ Len(tok) = 2 /\ tok[1] = " " /\ IsDigit(tok[2]) /\ tok[2] # "0"

\* the day token without the blank the last alternative admits
DayDigits(tok) == IF tok[1] = " " THEN SubSeq(tok, 2, Len(tok)) ELSE tok

IsLeap(y) == y % 4 = 0 /\ (y % 100 # 0 \/ y % 400 = 0)

DaysInMonth(y, m) ==
    IF m = 2 THEN (IF IsLeap(y) THEN 29 ELSE 28)
    ELSE IF m \in {4, 6, 9, 11} THEN 30 ELSE 31

NoDate == [year |-> 0, month |-> 0, day |-> 0]

\* The lengths (month token, day token) under which s matches the format.
FormatSplits(s) ==
    {sp \in {1, 2} \X {1, 2} :
        /\ Len(s) = 6 + sp[1] + sp[2]
        /\ MatchYear(SubSeq(s, 1, 4))
        /\ s[5] = "-"
        /\ MatchMonth(SubSeq(s, 6, 5 + sp[1]))
        /\ s[6 + sp[1]] = "-"
        /\ MatchDay(SubSeq(s, 7 + sp[1], 6 + sp[1] + sp[2]))}

\* strptime without the date constructor's range check (the fault C5 detects)
strptime_unchecked(s) ==
    IF FormatSplits(s) = {} THEN [raises |-> "ValueError", value |-> NoDate]
    ELSE LET sp == CHOOSE x \in FormatSplits(s) : TRUE
         IN  [raises |-> "none",
              value |-> [year |-> ToInt(SubSeq(s, 1, 4)),
                         month |-> ToInt(SubSeq(s, 6, 5 + sp[1])),
                         day |-> ToInt(DayDigits(SubSeq(s, 7 + sp[1],
                                                  6 + sp[1] + sp[2])))]]

\* strptime of a str: the date, or the ValueError it raises.
strptime(s) ==
    IF FormatSplits(s) = {} THEN [raises |-> "ValueError", value |-> NoDate]
    ELSE LET sp == CHOOSE x \in FormatSplits(s) : TRUE
             y == ToInt(SubSeq(s, 1, 4))
             m == ToInt(SubSeq(s, 6, 5 + sp[1]))
             d == ToInt(DayDigits(SubSeq(s, 7 + sp[1], 6 + sp[1] + sp[2])))
         IN  IF y < 1 \/ d > DaysInMonth(y, m)
             THEN [raises |-> "ValueError", value |-> NoDate]
             ELSE [raises |-> "none",
                   value |-> [year |-> y, month |-> m, day |-> d]]

\* strptime of a JSON value: anything but a str is a TypeError.
parse_dob(val) ==
    IF val.t # "str" THEN [raises |-> "TypeError", value |-> NoDate]
    ELSE strptime(val.s)

\* isoformat without the zero padding of month and day (the fault C3 detects)
isoformat_unpadded(d) ==
    ZeroPad(d.year, 4) \o <<"-">>
        \o (IF d.month < 10 THEN <<DIGITS[d.month + 1]>> ELSE ZeroPad(d.month, 2))
        \o <<"-">>
        \o (IF d.day < 10 THEN <<DIGITS[d.day + 1]>> ELSE ZeroPad(d.day, 2))

isoformat(d) ==
    ZeroPad(d.year, 4) \o <<"-">> \o ZeroPad(d.month, 2) \o <<"-">>
        \o ZeroPad(d.day, 2)


(***************************************************************************)
(* The Student model: columns, to_dict, and the store's primitives.        *)
(***************************************************************************)
Columns == {"first_name", "last_name", "dob", "amount_due"}

\* Student.to_dict of the row stored under student_id
to_dict(student_id, row) ==
    [student_id |-> student_id,
     first_name |-> row.first_name,
     last_name  |-> row.last_name,
     dob        |-> Str(isoformat(row.dob)),
     amount_due |-> row.amount_due]

RECURSIVE MaxOf(_)
MaxOf(S) ==
    IF S = {} THEN 0
    ELSE LET x == CHOOSE y \in S : TRUE
             m == MaxOf(S \ {x})
         IN  IF x > m THEN x ELSE m

\* Numbering by the count of rows, which meets an id in use once a row below
\* the largest is deleted (the fault C2 detects)
new_student_id_by_count(table) == Cardinality(DOMAIN table) + 1

\* The student_id the store gives the next inserted row: student_id is an
\* INTEGER primary key, which numbers a new row one past the largest id present.
new_student_id(table) == MaxOf(DOMAIN table) + 1

\* nullable=False on the four columns: the INSERT or UPDATE of a row holding
\* None fails with an IntegrityError.
violates_not_null(row) ==
    \/ row.first_name.t = "null"
    \/ row.last_name.t = "null"
    \/ row.amount_due.t = "null"

\* db.session.add(row); db.session.commit()
commit_add(table, row) ==
    IF violates_not_null(row)
    THEN [raises |-> "IntegrityError", table |-> table, student_id |-> 0]
    ELSE LET id == new_student_id(table)
         IN  [raises |-> "none",
              table |-> [i \in DOMAIN table \cup {id} |->
                            IF i = id THEN row ELSE table[i]],
              student_id |-> id]

\* db.session.commit() with the loaded row changed in the session
commit_update(table, student_id, row) ==
    IF violates_not_null(row)
    THEN [raises |-> "IntegrityError", table |-> table]
    ELSE [raises |-> "none", table |-> [table EXCEPT ![student_id] = row]]

\* A delete that is never committed (the fault C4 detects)
commit_delete_lost(table, student_id) == table

\* db.session.delete(row); db.session.commit()
commit_delete(table, student_id) ==
    [i \in DOMAIN table \ {student_id} |-> table[i]]

\* Student.query.all(), serialized: the rows in the store's native (id) order
RECURSIVE query_all(_, _)
query_all(table, ids) ==
    IF ids = {} THEN <<>>
    ELSE LET m == MaxOf(ids)
         IN  Append(query_all(table, ids \ {m}), to_dict(m, table[m]))

(***************************************************************************)
(* Requests and responses.                                                 *)
(***************************************************************************)
EmptyObject == [k \in {} |-> Null]

\* A request: method and URL rule, the <int:student_id> of the path (0 when
\* the rule has none), the JSON body, and request.files['file'] (<<>> when the
\* form has no such part).
Request(method, rule, student_id, data, file) ==
    [method |-> method, rule |-> rule, student_id |-> student_id,
     data |-> data, file |-> file]

\* jsonify(...), status: handler is the view function that answered, student
\* the 'student' entry (<<>> when absent), students the 'students' list.
Response(handler, status, message, student, list) ==
    [handler |-> handler, status |-> status, message |-> message,
     student |-> student, students |-> list]

Reply(r) ==
    /\ inflight' = <<>>
    /\ response' = <<r>>

Routed(method, rule) ==
    /\ inflight # <<>>
    /\ inflight[1].method = method
    /\ inflight[1].rule = rule

Init ==
    /\ students = EmptyObject
    /\ files = EmptyObject
    /\ inflight = <<>>
    /\ response = <<>>

(***************************************************************************)
(* POST /students                                                          *)
(***************************************************************************)
create_student ==
    /\ Routed("POST", "/students")
    /\ UNCHANGED files
    /\ LET data == inflight[1].data
       IN  IF data = EmptyObject \/ ~(Columns \subseteq DOMAIN data)
           THEN /\ Reply(Response("create_student", 400,
                           "Invalid input. Please provide all required fields.",
                           <<>>, <<>>))
                /\ UNCHANGED students
           ELSE LET dob == parse_dob(data["dob"])
                    new_student == [first_name |-> data["first_name"],
                                    last_name  |-> data["last_name"],
                                    dob        |-> dob.value,
                                    amount_due |-> data["amount_due"]]
                    done == commit_add(students, new_student)
                IN  IF dob.raises = "ValueError"
                    THEN /\ Reply(Response("create_student", 400,
                                    "Invalid date format. Use YYYY-MM-DD.",
                                    <<>>, <<>>))
                         /\ UNCHANGED students
                    ELSE IF dob.raises # "none" \/ done.raises # "none"
                    THEN /\ Reply(Response("create_student", 500,
                                    "Error creating student", <<>>, <<>>))
                         /\ UNCHANGED students
                    ELSE /\ students' = done.table
                         /\ Reply(Response("create_student", 201,
                                    "Student created!",
                                    <<to_dict(done.student_id,
                                              done.table[done.student_id])>>,
                                    <<>>))

(***************************************************************************)
(* GET /students and GET /students/<int:student_id>                        *)
(***************************************************************************)
get_students ==
    /\ Routed("GET", "/students")
    /\ UNCHANGED <<students, files>>
    /\ Reply(Response("get_students", 200, "", <<>>,
                      query_all(students, DOMAIN students)))

get_student ==
    /\ Routed("GET", "/students/<int:student_id>")
    /\ UNCHANGED <<students, files>>
    /\ LET student_id == inflight[1].student_id
       IN  IF student_id \in DOMAIN students
           THEN Reply(Response("get_student", 200, "",
                               <<to_dict(student_id, students[student_id])>>,
                               <<>>))
           ELSE Reply(Response("get_student", 404, "Student not found",
                               <<>>, <<>>))

(***************************************************************************)
(* PUT /students/<int:student_id>                                          *)
(***************************************************************************)
\* Replace semantics, data.get(column, ''): a column the payload lacks is
\* reset (the fault C1 detects)
assign_or_reset(row, data, column) ==
    [row EXCEPT ![column] = IF column \in DOMAIN data THEN data[column]
                            ELSE Str(<<>>)]

\* student.<column> = data[<column>] when the payload has the column
assign(row, data, column) ==
    IF column \in DOMAIN data THEN [row EXCEPT ![column] = data[column]]
    ELSE row

\* A commit on the way out of the except branch: the changes made before the
\* failure reach the table (the fault C8 detects)
discard_session_committed(table, student_id, dirty) ==
    [table EXCEPT ![student_id] = dirty]

\* An except branch answers without committing; the request's session goes
\* with the request, and the changes made to the loaded row go with it.
discard_session(table, student_id, dirty) == table

\* The payload checked before the record is looked up (the fault C10 detects)
update_precheck_payload_first(table, student_id, data) ==
    IF data = EmptyObject THEN "no data"
    ELSE IF student_id \notin DOMAIN table THEN "not found"
    ELSE "ok"

\* The two checks before the try block, in the order the handler makes them.
update_precheck(table, student_id, data) ==
    IF student_id \notin DOMAIN table THEN "not found"
    ELSE IF data = EmptyObject THEN "no data"
    ELSE "ok"

update_student ==
    /\ Routed("PUT", "/students/<int:student_id>")
    /\ UNCHANGED files
    /\ LET student_id == inflight[1].student_id
           data == inflight[1].data
           check == update_precheck(students, student_id, data)
       IN  IF check = "not found"
           THEN /\ Reply(Response("update_student", 404, "Student not found",
                                  <<>>, <<>>))
                /\ UNCHANGED students
           ELSE IF check = "no data"
           THEN /\ Reply(Response("update_student", 400,
                                  "No data provided for update", <<>>, <<>>))
                /\ UNCHANGED students
           ELSE LET s1 == assign(students[student_id], data, "first_name")
                    s2 == assign(s1, data, "last_name")
                    dob == IF "dob" \in DOMAIN data THEN parse_dob(data["dob"])
                           ELSE [raises |-> "none", value |-> s2.dob]
                    s3 == [s2 EXCEPT !.dob = dob.value]
                    s4 == assign(s3, data, "amount_due")
                    done == commit_update(students, student_id, s4)
                IN  IF dob.raises = "ValueError"
                    THEN /\ students' = discard_session(students, student_id, s2)
                         /\ Reply(Response("update_student", 400,
                                    "Invalid date format. Use YYYY-MM-DD.",
                                    <<>>, <<>>))
                    ELSE IF dob.raises # "none"
                    THEN /\ students' = discard_session(students, student_id, s2)
                         /\ Reply(Response("update_student", 500,
                                    "Error updating student", <<>>, <<>>))
                    ELSE IF done.raises # "none"
                    THEN /\ students' = discard_session(students, student_id, s4)
                         /\ Reply(Response("update_student", 500,
                                    "Error updating student", <<>>, <<>>))
                    ELSE /\ students' = done.table
                         /\ Reply(Response("update_student", 200,
                                    "Student updated!",
                                    <<to_dict(student_id,
                                              done.table[student_id])>>,
                                    <<>>))

(***************************************************************************)
(* DELETE /students/<int:student_id>                                       *)
(***************************************************************************)
delete_student ==
    /\ Routed("DELETE", "/students/<int:student_id>")
    /\ UNCHANGED files
    /\ LET student_id == inflight[1].student_id
       IN  IF student_id \notin DOMAIN students
           THEN /\ Reply(Response("delete_student", 404, "Student not found",
                                  <<>>, <<>>))
                /\ UNCHANGED students
           ELSE /\ students' = commit_delete(students, student_id)
                /\ Reply(Response("delete_student", 200, "Student deleted!",
                                  <<>>, <<>>))

(***************************************************************************)
(* POST /upload                                                            *)
(***************************************************************************)
UPPER == <<"A", "B", "C", "D", "E", "F", "G", "H", "I", "J", "K", "L", "M",
           "N", "O", "P", "Q", "R", "S", "T", "U", "V", "W", "X", "Y", "Z">>
LOWER == <<"a", "b", "c", "d", "e", "f", "g", "h", "i", "j", "k", "l", "m",
           "n", "o", "p", "q", "r", "s", "t", "u", "v", "w", "x", "y", "z">>

\* str.lower()
lower(s) ==
    [i \in 1..Len(s) |->
        IF \E k \in 1..26 : UPPER[k] = s[i]
        THEN LOWER[CHOOSE k \in 1..26 : UPPER[k] = s[i]]
        ELSE s[i]]

\* s.rsplit('.', 1)[1], for s holding a '.'
rsplit_ext(s) ==
    LET dot == CHOOSE i \in 1..Len(s) :
                   s[i] = "." /\ \A j \in (i + 1)..Len(s) : s[j] # "."
    IN  SubSeq(s, dot + 1, Len(s))

ALLOWED_EXTENSIONS ==
    {<<"p", "n", "g">>, <<"j", "p", "g">>, <<"j", "p", "e", "g">>,
     <<"g", "i", "f">>}

\* The extension compared without lower() (the fault C9 detects)
allowed_file_case_sensitive(filename) ==
    /\ \E i \in 1..Len(filename) : filename[i] = "."
    /\ rsplit_ext(filename) \in ALLOWED_EXTENSIONS

allowed_file(filename) ==
    /\ \E i \in 1..Len(filename) : filename[i] = "."
    /\ lower(rsplit_ext(filename)) \in ALLOWED_EXTENSIONS

\* os.path.join('uploads', filename)
upload_path(filename) ==
    IF filename # <<>> /\ filename[1] = "/" THEN filename
    ELSE <<"u", "p", "l", "o", "a", "d", "s", "/">> \o filename

\* file.save(path): the path holds the content, whatever it held before
save(fs, path, content) ==
    [q \in DOMAIN fs \cup {path} |-> IF q = path THEN content ELSE fs[q]]

upload_file ==
    /\ Routed("POST", "/upload")
    /\ UNCHANGED students
    /\ LET file == inflight[1].file
       IN  IF file = <<>>
           THEN /\ Reply(Response("upload_file", 400, "No file part",
                                  <<>>, <<>>))
                /\ UNCHANGED files
           ELSE IF file[1].filename = <<>>
           THEN /\ Reply(Response("upload_file", 400, "No selected file",
                                  <<>>, <<>>))
                /\ UNCHANGED files
           ELSE IF allowed_file(file[1].filename)
           THEN /\ files' = save(files, upload_path(file[1].filename),
                                 file[1].content)
                /\ Reply(Response("upload_file", 200,
                                  "File uploaded successfully", <<>>, <<>>))
           ELSE /\ Reply(Response("upload_file", 400, "Invalid file type",
                                  <<>>, <<>>))
                /\ UNCHANGED files

(***************************************************************************)
(* The requests clients send.                                              *)
(***************************************************************************)
ANN == <<"A", "n", "n">>
LEE == <<"L", "e", "e">>

DOB_PADDED    == <<"2", "0", "2", "0", "-", "0", "1", "-", "0", "5">>
DOB_UNPADDED  == <<"2", "0", "2", "0", "-", "1", "-", "5">>
DOB_LEAPDAY   == <<"2", "0", "2", "4", "-", "0", "2", "-", "2", "9">>
DOB_NOSUCHDAY == <<"2", "0", "2", "3", "-", "0", "2", "-", "2", "9">>
DOB_GARBAGE   == <<"1", "3", "-", "9", "9", "-", "9", "9", "9", "9">>
DOB_BLANKDAY  == <<"2", "0", "2", "0", "-", "0", "1", "-", " ", "5">>
DOB_MONTH13   == <<"2", "0", "2", "0", "-", "1", "3", "-", "0", "1">>
DOB_YEAR0     == <<"0", "0", "0", "0", "-", "0", "1", "-", "0", "5">>
DOB_TRAILING  == <<"2", "0", "2", "0", "-", "0", "1", "-", "0", "5", "5">>
DOB_SLASHES   == <<"2", "0", "2", "0", "/", "0", "1", "/", "0", "5">>

BaseBody ==
    [first_name |-> Str(ANN), last_name |-> Str(LEE),
     dob |-> Str(DOB_PADDED), amount_due |-> Num(50)]

\* Per column, the other values a client supplies: another valid value, an
\* empty or malformed one, and null.
Alternatives ==
    [first_name |-> {Str(<<>>), Null},
     last_name  |-> {Null},
     dob        |-> {Str(DOB_UNPADDED), Str(DOB_LEAPDAY), Str(DOB_NOSUCHDAY),
                     Str(DOB_GARBAGE), Str(DOB_BLANKDAY), Str(DOB_MONTH13),
                     Str(DOB_YEAR0), Str(DOB_TRAILING), Str(DOB_SLASHES),
                     Null},
     amount_due |-> {Num(0), Null}]

Restrict(f, S) == [k \in S |-> f[k]]

With(f, key, val) ==
    [k \in DOMAIN f \cup {key} |-> IF k = key THEN val ELSE f[k]]

\* JSON bodies: every subset of the columns with the base values; the full
\* body and the one-column body with one alternative value; and bodies that
\* also name student_id.
Bodies ==
    {Restrict(BaseBody, S) : S \in SUBSET Columns}
    \cup UNION {{With(b, c, v) : b \in {BaseBody, EmptyObject},
                                 v \in Alternatives[c]} : c \in Columns}
    \cup {With(b, "student_id", Num(MaxId)) : b \in {BaseBody, EmptyObject}}

StudentIds == 1..MaxId

StudentRequests ==
    {Request("POST", "/students", 0, b, <<>>) : b \in Bodies}
    \cup {Request("GET", "/students", 0, EmptyObject, <<>>)}
    \cup {Request(m, "/students/<int:student_id>", i, EmptyObject, <<>>) :
            m \in {"GET", "DELETE"}, i \in StudentIds}
    \cup {Request("PUT", "/students/<int:student_id>", i, b, <<>>) :
            i \in StudentIds, b \in Bodies}

FilePart(filename, content) == [filename |-> filename, content |-> content]

FILENAMES ==
    {<<>>,
     <<"a", ".", "p", "n", "g">>,
     <<"a", ".", "P", "n", "G">>,
     <<".", "g", "i", "f">>,
     <<"a", ".", "e", "x", "e", ".", "j", "p", "e", "g">>,
     <<"p", "n", "g">>,
     <<"a", ".", "e", "x", "e">>,
     <<"a", ".", "p", "n", "g", ".">>,
     <<"a", ".", "j", "p", "g", ".", "e", "x", "e">>}

CONTENTS == {"bytes1", "bytes2"}

UploadRequests ==
    {Request("POST", "/upload", 0, EmptyObject, <<>>)}
    \cup {Request("POST", "/upload", 0, EmptyObject, <<FilePart(n, c)>>) :
            n \in FILENAMES, c \in CONTENTS}

\* The student traffic beside the uploads, and the upload traffic beside
\* the student requests.
FewStudentRequests ==
    {r \in StudentRequests :
        r.data \in {EmptyObject, BaseBody, [amount_due |-> Num(0)]}}

FewUploadRequests ==
    {r \in UploadRequests :
        r.file = <<>> \/ r.file[1].filename = <<"a", ".", "e", "x", "e">>}

\* A client sends a request; a create is sent while the store has ids left.
Receive(requests) ==
    \E r \in requests :
        /\ inflight = <<>>
        /\ (r.method = "POST" /\ r.rule = "/students")
              => new_student_id(students) <= MaxId
        /\ inflight' = <<r>>
        /\ response' = <<>>
        /\ UNCHANGED <<students, files>>

Handle ==
    \/ create_student
    \/ get_students
    \/ get_student
    \/ update_student
    \/ delete_student
    \/ upload_file

Next == Receive(StudentRequests \cup FewUploadRequests) \/ Handle

Spec == Init /\ [][Next]_vars

NextUpload == Receive(FewStudentRequests \cup UploadRequests) \/ Handle

SpecUpload == Init /\ [][NextUpload]_vars

(***************************************************************************)
(* Vocabulary of the properties.  A handler step takes the request in      *)
(* flight (unprimed) to its response (primed).                             *)
(***************************************************************************)
ONE == "/students/<int:student_id>"

Answered(method, rule) ==
    /\ Routed(method, rule)
    /\ inflight' = <<>>
    /\ response' # <<>>

AnsweredWith(method, rule, status) ==
    /\ Answered(method, rule)
    /\ response'[1].status = status

LastAnswer(handler, status) ==
    /\ response # <<>>
    /\ response[1].handler = handler
    /\ response[1].status = status

\* n < 100 in decimal, without padding
Decimal(n) == IF n < 10 THEN <<DIGITS[n + 1]>> ELSE ZeroPad(n, 2)

IsCalendarDate(d) ==
    /\ d.year \in 1..9999
    /\ d.month \in 1..12
    /\ d.day \in 1..DaysInMonth(d.year, d.month)

\* YYYY-MM-DD, zero-padded
Padded(d) ==
    ZeroPad(d.year, 4) \o <<"-">> \o ZeroPad(d.month, 2) \o <<"-">>
        \o ZeroPad(d.day, 2)

\* The ways to write the calendar date d that the service accepts: the
\* year in four digits, month and day in one or two, a one-digit day also
\* after a blank.
Renderings(d) ==
    {ZeroPad(d.year, 4) \o <<"-">> \o m \o <<"-">> \o dd :
        m \in {ZeroPad(d.month, 2), Decimal(d.month)},
        dd \in {ZeroPad(d.day, 2), Decimal(d.day), <<" ">> \o Decimal(d.day)}
              \ {<<" ">> \o ZeroPad(d.day, 2)}}

AllDigits(tok) == \A i \in 1..Len(tok) : IsDigit(tok[i])

\* The date a string reads as when cut at its dashes, <<>> when it has
\* not exactly two dashes around three numerals.
ReadAtDashes(s) ==
    LET dashes == {i \in 1..Len(s) : s[i] = "-"}
        p1 == CHOOSE i \in dashes : \A j \in dashes : i <= j
        p2 == CHOOSE i \in dashes : \A j \in dashes : j <= i
        y == SubSeq(s, 1, p1 - 1)
        m == SubSeq(s, p1 + 1, p2 - 1)
        d == SubSeq(s, p2 + 1, Len(s))
        dd == IF d # <<>> /\ d[1] = " " THEN SubSeq(d, 2, Len(d)) ELSE d
    IN  IF Cardinality(dashes) = 2
           /\ Len(y) = 4 /\ Len(m) \in {1, 2} /\ Len(d) \in {1, 2}
           /\ dd # <<>>
           /\ AllDigits(y) /\ AllDigits(m) /\ AllDigits(dd)
        THEN <<[year |-> ToInt(y), month |-> ToInt(m), day |-> ToInt(dd)]>>
        ELSE <<>>

\* A str value that names a calendar date in one of the accepted writings
AcceptedDob(val) ==
    /\ val.t = "str"
    /\ ReadAtDashes(val.s) # <<>>
    /\ IsCalendarDate(ReadAtDashes(val.s)[1])
    /\ val.s \in Renderings(ReadAtDashes(val.s)[1])

\* A str value that is exactly a zero-padded YYYY-MM-DD calendar date
StrictDob(val) ==
    /\ AcceptedDob(val)
    /\ val.s = Padded(ReadAtDashes(val.s)[1])

\* val names the date d
Denotes(val, d) == val.t = "str" /\ IsCalendarDate(d) /\ val.s \in Renderings(d)

\* The entry a record is read back as: its columns, the dob zero-padded
Entry(student_id, row) ==
    [student_id |-> student_id,
     first_name |-> row.first_name,
     last_name  |-> row.last_name,
     dob        |-> Str(Padded(row.dob)),
     amount_due |-> row.amount_due]

\* Every record but those in ids is in the store after the step as before
OthersKept(ids) ==
    \A j \in DOMAIN students \ ids :
        j \in DOMAIN students' /\ students'[j] = students[j]

(***************************************************************************)
(* C1.  An accepted update (PUT answered 200) of an existing student with  *)
(* a non-empty payload gives each column present the supplied value (the   *)
(* dob the date the supplied string names), keeps each column absent, and  *)
(* changes neither the student_id nor any other record.                    *)
(***************************************************************************)
C1_UpdateFrame ==
    [][AnsweredWith("PUT", ONE, 200) =>
        LET id == inflight[1].student_id
            data == inflight[1].data
        IN  /\ data # EmptyObject
            /\ id \in DOMAIN students
            /\ DOMAIN students' = DOMAIN students
            /\ OthersKept({id})
            /\ \A c \in {"first_name", "last_name", "amount_due"} :
                  students'[id][c] =
                      IF c \in DOMAIN data THEN data[c] ELSE students[id][c]
            /\ IF "dob" \in DOMAIN data
               THEN Denotes(data["dob"], students'[id].dob)
               ELSE students'[id].dob = students[id].dob
            /\ response'[1].student = <<Entry(id, students'[id])>>]_vars

\* An update was accepted, beside another record, on a record that keeps the
\* base first_name and holds an amount_due and a dob other than the base ones.
C1_Witness ==
    /\ LastAnswer("update_student", 200)
    /\ Cardinality(DOMAIN students) >= 2
    /\ response[1].student[1].amount_due = Num(0)
    /\ response[1].student[1].first_name = Str(ANN)
    /\ response[1].student[1].dob = Str(DOB_LEAPDAY)

(***************************************************************************)
(* C2.  A successful create (201) returns a student_id no existing record  *)
(* has and adds exactly that one record; a successful delete removes       *)
(* exactly the id it names; no other step changes the set of ids; every    *)
(* response names the id its record is stored under, and a listing never   *)
(* shows one id twice.                                                     *)
(***************************************************************************)
C2_UniqueStableIds ==
    [][/\ AnsweredWith("POST", "/students", 201) =>
            LET id == response'[1].student[1].student_id
            IN  /\ id \notin DOMAIN students
                /\ DOMAIN students' = DOMAIN students \cup {id}
                /\ Cardinality(DOMAIN students') =
                       Cardinality(DOMAIN students) + 1
                /\ OthersKept({})
       /\ AnsweredWith("DELETE", ONE, 200) =>
            DOMAIN students' = DOMAIN students \ {inflight[1].student_id}
       /\ ~AnsweredWith("POST", "/students", 201)
            /\ ~AnsweredWith("DELETE", ONE, 200)
            => DOMAIN students' = DOMAIN students
       /\ (AnsweredWith("PUT", ONE, 200) \/ AnsweredWith("GET", ONE, 200)) =>
            /\ response'[1].student[1].student_id = inflight[1].student_id
            /\ inflight[1].student_id \in DOMAIN students'
       /\ Answered("GET", "/students") =>
            LET list == response'[1].students
            IN  \A i, j \in 1..Len(list) :
                    list[i].student_id = list[j].student_id => i = j]_vars

\* A create was answered 201 with a new id beside a different record.
C2_Witness ==
    /\ LastAnswer("create_student", 201)
    /\ response[1].student[1].student_id = 2
    /\ DOMAIN students = {1, 2}
    /\ students[1] # students[2]

(***************************************************************************)
(* C3.  GET /students answers 200 with exactly one entry per record of the *)
(* store.  An entry's first_name, last_name and amount_due are the values  *)
(* supplied by the create or the latest accepted update, and no other step *)
(* changes a record.  Its dob is, as the claim is written (strict), the    *)
(* very string that was supplied; as amended, the zero-padded YYYY-MM-DD   *)
(* writing of the date the supplied string names.                          *)
(***************************************************************************)
DobReadBack(strict, supplied, row) ==
    IF strict THEN Entry(0, row).dob = supplied
    ELSE Denotes(supplied, row.dob)

ListStep(strict) ==
    /\ Answered("GET", "/students") =>
          LET list == response'[1].students
          IN  /\ response'[1].status = 200
              /\ Len(list) = Cardinality(DOMAIN students)
              /\ \A id \in DOMAIN students :
                    \E k \in 1..Len(list) : list[k] = Entry(id, students[id])
    /\ AnsweredWith("POST", "/students", 201) =>
          LET data == inflight[1].data
              id == CHOOSE i \in DOMAIN students' : i \notin DOMAIN students
              new == Entry(id, students'[id])
          IN  /\ new.first_name = data["first_name"]
              /\ new.last_name = data["last_name"]
              /\ new.amount_due = data["amount_due"]
              /\ DobReadBack(strict, data["dob"], students'[id])
              /\ OthersKept({})
    /\ AnsweredWith("PUT", ONE, 200) =>
          LET data == inflight[1].data
              id == inflight[1].student_id
              new == Entry(id, students'[id])
              old == Entry(id, students[id])
          IN  /\ \A c \in Columns \ {"dob"} :
                    new[c] = IF c \in DOMAIN data THEN data[c] ELSE old[c]
              /\ IF "dob" \in DOMAIN data
                 THEN DobReadBack(strict, data["dob"], students'[id])
                 ELSE new.dob = old.dob
              /\ OthersKept({id})
    /\ AnsweredWith("DELETE", ONE, 200) => OthersKept({inflight[1].student_id})
    /\ ~AnsweredWith("POST", "/students", 201)
          /\ ~AnsweredWith("PUT", ONE, 200)
          /\ ~AnsweredWith("DELETE", ONE, 200)
          => students' = students

C3_ListStrict == [][ListStep(TRUE)]_vars

C3_ListPadded == [][ListStep(FALSE)]_vars

\* A listing of two records with different dobs, the second with the
\* amount_due 0 that only an alternative body or an update supplies.
C3_Witness ==
    /\ LastAnswer("get_students", 200)
    /\ Len(response[1].students) = 2
    /\ response[1].students[1].dob = Str(DOB_PADDED)
    /\ response[1].students[2].dob = Str(DOB_LEAPDAY)
    /\ response[1].students[2].amount_due = Num(0)

(***************************************************************************)
(* C4.  DELETE of an existing id answers 200 and removes exactly that      *)
(* record; DELETE and GET of an id not in the store answer 404 and change  *)
(* nothing; and an id not in the store enters it only by a create that is  *)
(* answered 201 with that id, so the 404s last until then.                 *)
(***************************************************************************)
C4_DeleteThen404 ==
    [][/\ Answered("DELETE", ONE) =>
            LET id == inflight[1].student_id
            IN  IF id \in DOMAIN students
                THEN /\ response'[1].status = 200
                     /\ DOMAIN students' = DOMAIN students \ {id}
                     /\ OthersKept({id})
                ELSE /\ response'[1].status = 404
                     /\ students' = students
       /\ Answered("GET", ONE) =>
            /\ response'[1].status =
                  IF inflight[1].student_id \in DOMAIN students
                  THEN 200 ELSE 404
            /\ students' = students
       /\ \A id \in DOMAIN students' \ DOMAIN students :
            /\ AnsweredWith("POST", "/students", 201)
            /\ response'[1].student[1].student_id = id]_vars

\* A delete was answered 200 and left the other record in the store.
C4_Witness ==
    /\ LastAnswer("delete_student", 200)
    /\ DOMAIN students = {2}

(***************************************************************************)
(* C5.  POST /students whose body omits a column, or whose dob string is   *)
(* not a valid date, is answered 400, and a create answered 400 leaves the *)
(* store and the next student_id as they were.  As the claim is written    *)
(* (strict) a valid date is a zero-padded YYYY-MM-DD calendar date; as     *)
(* amended it is a calendar date written with a four-digit year and one-   *)
(* or two-digit month and day, which is what the handler accepts.          *)
(***************************************************************************)
CreateStep(strict) ==
    Answered("POST", "/students") =>
        LET data == inflight[1].data
            valid == IF strict THEN StrictDob(data["dob"])
                     ELSE AcceptedDob(data["dob"])
        IN  /\ (\/ ~(Columns \subseteq DOMAIN data)
                \/ (data["dob"].t = "str" /\ ~valid))
               => response'[1].status = 400
            /\ response'[1].status = 400 =>
                  /\ students' = students
                  /\ MaxOf(DOMAIN students') = MaxOf(DOMAIN students)

C5_RejectStrict == [][CreateStep(TRUE)]_vars

C5_RejectUnparsed == [][CreateStep(FALSE)]_vars

\* A create was refused for its date while the store held a record.
C5_Witness ==
    /\ LastAnswer("create_student", 400)
    /\ response[1].message = "Invalid date format. Use YYYY-MM-DD."
    /\ Cardinality(DOMAIN students) = 1

(***************************************************************************)
(* C6.  A POST /students body naming all four columns, one of them null,   *)
(* is answered 400, and no create or update is answered 500.               *)
(***************************************************************************)
C6_NullIsClientError ==
    [][/\ Answered("POST", "/students") =>
            LET data == inflight[1].data
            IN  (/\ Columns \subseteq DOMAIN data
                 /\ \E c \in Columns : data[c] = Null)
                => response'[1].status = 400
       /\ (Answered("POST", "/students") \/ Answered("PUT", ONE)) =>
            response'[1].status # 500]_vars

(***************************************************************************)
(* C7.  Every record in the store has a non-empty text first_name and      *)
(* last_name, a calendar date dob and a numeric amount_due.                *)
(***************************************************************************)
C7_WellTypedRecords ==
    \A id \in DOMAIN students :
        /\ students[id].first_name.t = "str"
        /\ students[id].first_name.s # <<>>
        /\ students[id].last_name.t = "str"
        /\ students[id].last_name.s # <<>>
        /\ IsCalendarDate(students[id].dob)
        /\ students[id].amount_due.t = "num"

SameLetters(a, b) ==
    /\ Len(a) = Len(b)
    /\ \A i \in 1..Len(a) :
          \/ a[i] = b[i]
          \/ \E k \in 1..26 : UPPER[k] = a[i] /\ LOWER[k] = b[i]

AllowedName(name) ==
    \E k \in 1..Len(name) :
        /\ name[k] = "."
        /\ \A j \in (k + 1)..Len(name) : name[j] # "."
        /\ \E ext \in {<<"p", "n", "g">>, <<"j", "p", "g">>,
                       <<"j", "p", "e", "g">>, <<"g", "i", "f">>} :
              SameLetters(SubSeq(name, k + 1, Len(name)), ext)

Outcome(file) ==
    IF file = <<>> THEN <<400, "No file part">>
    ELSE IF file[1].filename = <<>> THEN <<400, "No selected file">>
    ELSE IF ~AllowedName(file[1].filename) THEN <<400, "Invalid file type">>
    ELSE <<200, "File uploaded successfully">>

C9_UploadOutcome ==
    [][Answered("POST", "/upload") =>
        LET file == inflight[1].file
            path == <<"u", "p", "l", "o", "a", "d", "s", "/">>
                        \o file[1].filename
        IN  /\ <<response'[1].status, response'[1].message>> = Outcome(file)
            /\ students' = students
            /\ IF response'[1].status = 200
               THEN /\ DOMAIN files' = DOMAIN files \cup {path}
                    /\ files'[path] = file[1].content
                    /\ \A q \in DOMAIN files \ {path} : files'[q] = files[q]
               ELSE files' = files]_vars

\* An upload was accepted beside other files and a student record, the
\* mixed-case name among the files.
C9_Witness ==
    /\ LastAnswer("upload_file", 200)
    /\ Cardinality(DOMAIN files) >= 3
    /\ <<"u", "p", "l", "o", "a", "d", "s", "/", "a", ".", "P", "n", "G">>
          \in DOMAIN files
    /\ students # EmptyObject

(***************************************************************************)
(* C10.  PUT on an id not in the store is answered 404 whatever the        *)
(* payload, and PUT on an existing id with an empty payload is answered    *)
(* 400 'No data provided for update'; neither changes the store.           *)
(***************************************************************************)
C10_ExistenceFirst ==
    [][Answered("PUT", ONE) =>
        LET id == inflight[1].student_id
            data == inflight[1].data
        IN  /\ id \notin DOMAIN students =>
                  /\ response'[1].status = 404
                  /\ students' = students
            /\ (id \in DOMAIN students /\ data = EmptyObject) =>
                  /\ response'[1].status = 400
                  /\ response'[1].message = "No data provided for update"
                  /\ students' = students]_vars

\* An update of an absent id was answered 404 while the store held a record.
C10_Witness ==
    /\ LastAnswer("update_student", 404)
    /\ students # EmptyObject

=============================================================================
